---- MODULE Spec2Model ----
(***************************************************************************)
(* A model of backend.py: the chunker chunk_text, and the three Flask      *)
(* handlers upload_file, get_context and delete_file running concurrently  *)
(* against one PostgreSQL table `documents` (READ COMMITTED transactions,  *)
(* one connection per request, UNIQUE(file_name, chunk_index)).            *)
(***************************************************************************)
EXTENDS Integers, Sequences, FiniteSets, TLC

\* ----------------------------------------------------------------- bounds
\* Longest text, and largest window, the chunker is run on in SpecChunk.
MaxLen == 5
MaxSize == 3
\* Iterations of the loop of chunk_text that a behaviour follows.
MaxIter == 8
\* Number of failures of the environment (the embedding model, the database
\* server, the network) in one behaviour of Spec.
MaxFaults == 1

\* ------------------------------------------------------ program constants
CHUNK_SIZE == 190
CHUNK_OVERLAP == 50
TOP_K_CHUNKS == 5

\* ---------------------------------------------------------------- helpers
Min(a, b) == IF a <= b THEN a ELSE b

\* A slice bound as Python reads it: a negative bound counts from the end,
\* and every bound is clipped to 0..len.
SliceBound(x, len) ==
  IF x < 0 THEN (IF x + len < 0 THEN 0 ELSE x + len) ELSE Min(x, len)

\* Python's text[start:end]: 0-based, end exclusive, clipped at len(text).
Slice(text, start, end) ==
  SubSeq(text, SliceBound(start, Len(text)) + 1, SliceBound(end, Len(text)))

\* All sequences over S of length at most n.
SeqUpTo(S, n) == UNION {[1..k -> S] : k \in 0..n}

\* ---------------------------------------------------------------- chunker
\* A chunker whose window is one character short.
ChunkBody_ShortWindow(text, chunk_size, overlap, i, chunks) ==
  [chunks |-> Append(chunks, Slice(text, i, i + chunk_size - 1)),
   i      |-> i + (chunk_size - overlap)]

\* A chunker that advances by the window, not by the stride.
ChunkBody_NoOverlap(text, chunk_size, overlap, i, chunks) ==
  [chunks |-> Append(chunks, Slice(text, i, i + chunk_size)),
   i      |-> i + chunk_size]

\* A chunker that does not advance.
ChunkBody_NoAdvance(text, chunk_size, overlap, i, chunks) ==
  [chunks |-> Append(chunks, Slice(text, i, i + chunk_size)),
   i      |-> i]

\* One iteration of the while loop of chunk_text: the state is (i, chunks).
ChunkBody(text, chunk_size, overlap, i, chunks) ==
  [chunks |-> Append(chunks, Slice(text, i, i + chunk_size)),
   i      |-> i + (chunk_size - overlap)]

RECURSIVE ChunkLoop(_, _, _, _, _)
ChunkLoop(text, chunk_size, overlap, i, chunks) ==
  IF i < Len(text)
  THEN LET s == ChunkBody(text, chunk_size, overlap, i, chunks)
       IN  ChunkLoop(text, chunk_size, overlap, s.i, s.chunks)
  ELSE chunks

chunk_text(text, chunk_size, overlap) ==
  ChunkLoop(text, chunk_size, overlap, 0, <<>>)

\* ------------------------------------------------------------------ state
VARIABLES
  \* chunk_text, run step by step (SpecChunk): its parameters and locals
  text, chunk_size, overlap, i, chunks, starts, ckpc,
  \* the documents table: the committed rows
  committed,
  \* per request thread: position, handler, request input, locals, response
  pc, op, arg, loc, resp,
  \* failures of the environment so far, and connections that handlers
  \* returned without closing
  nfaults, leaked,
  \* history: the kinds of request that overlapped or followed each request,
  \* the table when the request started, the chunks of the last committed
  \* replace (none for a delete) of each name
  others, pre, lastCommit

ckvars == <<text, chunk_size, overlap, i, chunks, starts, ckpc>>
dbvars == <<committed, pc, op, arg, loc, resp, nfaults, leaked,
            others, pre, lastCommit>>
vars == <<ckvars, dbvars>>

\* ------------------------------------------------------------------ texts
\* Characters are ASCII code points.
Alphabet == {97, 98}
EmptyText == <<>>
ShortText == [k \in 1..10 |-> 97 + (k % 3)]
LongText == [k \in 1..500 |-> 97 + (k % 26)]

\* ------------------------------------------------- chunk_text step by step
ChunkInputs ==
  {<<t, s, o>> : t \in SeqUpTo(Alphabet, MaxLen), s \in 1..MaxSize, o \in 0..(MaxSize - 1)}
  \cup {<<LongText, CHUNK_SIZE, CHUNK_OVERLAP>>, <<ShortText, CHUNK_SIZE, CHUNK_OVERLAP>>}

\* chunks = []; i = 0
ChunkInit ==
  /\ \E in \in ChunkInputs :
       /\ in[3] < in[2]
       /\ text = in[1]
       /\ chunk_size = in[2]
       /\ overlap = in[3]
  /\ i = 0
  /\ chunks = <<>>
  /\ starts = <<>>
  /\ ckpc = "while"

\* while i < len(text): start = i; end = i + chunk_size;
\*   chunks.append(text[start:end]); i += chunk_size - overlap
ChunkStep ==
  /\ ckpc = "while"
  /\ i < Len(text)
  /\ LET s == ChunkBody(text, chunk_size, overlap, i, chunks)
     IN  /\ chunks' = s.chunks
         /\ i' = s.i
  /\ starts' = Append(starts, i)
  /\ UNCHANGED <<text, chunk_size, overlap, ckpc>>

\* return chunks
ChunkReturn ==
  /\ ckpc = "while"
  /\ ~(i < Len(text))
  /\ ckpc' = "return"
  /\ UNCHANGED <<text, chunk_size, overlap, i, chunks, starts>>

DbIdle ==
  /\ committed = {}
  /\ pc = <<>> /\ op = <<>> /\ arg = <<>> /\ loc = <<>> /\ resp = <<>>
  /\ nfaults = 0 /\ leaked = 0
  /\ others = <<>> /\ pre = <<>> /\ lastCommit = <<>>

InitChunk == ChunkInit /\ DbIdle
NextChunk == (ChunkStep \/ ChunkReturn) /\ UNCHANGED dbvars
SpecChunk == InitChunk /\ [][NextChunk]_vars

\* The loop followed for at most MaxIter iterations, scheduled fairly: a
\* call of chunk_text keeps running until it returns.
ChunkStepCapped == Len(chunks) < MaxIter /\ ChunkStep
NextChunkCapped == (ChunkStepCapped \/ ChunkReturn) /\ UNCHANGED dbvars
SpecChunkFair == InitChunk /\ [][NextChunkCapped]_vars /\ WF_vars(NextChunkCapped)

\* chunk_text called with any overlap, as the module lets a configuration
\* do: nothing at lines 18-21 or in chunk_text relates overlap to chunk_size.
ChunkInitAny ==
  /\ \E in \in ChunkInputs :
       /\ text = in[1]
       /\ chunk_size = in[2]
       /\ overlap = in[3]
  /\ i = 0
  /\ chunks = <<>>
  /\ starts = <<>>
  /\ ckpc = "while"

InitChunkAny == ChunkInitAny /\ DbIdle
SpecChunkAny == InitChunkAny /\ [][NextChunkCapped]_vars

\* ----------------------------------------------------- chunker: the claims
Stride == chunk_size - overlap
CeilDiv(a, b) == (a + b - 1) \div b

\* C11: a configuration with overlap >= size is rejected before any
\* chunking, so no iteration of chunk_text runs with a stride <= 0.
C11_ConfigGuard == Len(chunks) > 0 => Stride > 0

\* C17: for 0 <= overlap < size the loop of chunk_text ends: every
\* iteration moves the scan position up by the stride, which is positive,
\* no call needs more than MaxIter iterations, and every call returns.
C17_Termination ==
  /\ <>(ckpc = "return")
  /\ [](ckpc = "while" /\ i < Len(text) => Len(chunks) < MaxIter)
  /\ [][i' # i => i' = i + Stride /\ i' > i /\ i < Len(text)]_vars

C17_Witness ==
  /\ ckpc = "return"
  /\ Len(chunks) = MaxLen
  /\ i = MaxLen

\* C8: chunk_text returns ceil(len(T)/stride) chunks, chunk k being
\* T[k*stride, min(k*stride + size, len(T))); "" gives no chunk and the
\* 500-character text with size 190, overlap 50 gives [0,190), [140,330),
\* [280,470), [420,500).
C8_ChunkerResult ==
  ckpc = "return" =>
    /\ chunks = chunk_text(text, chunk_size, overlap)
    /\ Len(chunks) = CeilDiv(Len(text), Stride)
    /\ \A k \in 0..(Len(chunks) - 1) :
         /\ Len(chunks[k + 1]) = Min(k * Stride + chunk_size, Len(text)) - k * Stride
         /\ \A j \in 1..Len(chunks[k + 1]) : chunks[k + 1][j] = text[k * Stride + j]
    /\ (text = EmptyText => chunks = <<>>)
    /\ (text = LongText /\ chunk_size = 190 /\ overlap = 50 =>
          chunks = <<SubSeq(text, 1, 190), SubSeq(text, 141, 330),
                     SubSeq(text, 281, 470), SubSeq(text, 421, 500)>>)

C8_Witness ==
  /\ ckpc = "return"
  /\ text = LongText
  /\ Len(chunks) = 4
  /\ Len(chunks[4]) = 80

\* The positions of T that chunk k (1-based) was cut from.
Span(k) == {starts[k] + j : j \in 0..(Len(chunks[k]) - 1)}

\* C9: every position of T lies in a chunk, and consecutive chunks k, k+1
\* share exactly min(overlap, len(T) - start of chunk k+1) positions.
C9_CoverageOverlap ==
  ckpc = "return" =>
    /\ \A pos \in 0..(Len(text) - 1) :
         \E k \in 1..Len(chunks) :
           /\ pos \in Span(k)
           /\ chunks[k][pos - starts[k] + 1] = text[pos + 1]
    /\ \A k \in 1..(Len(chunks) - 1) :
         Cardinality(Span(k) \cap Span(k + 1))
           = Min(overlap, Len(text) - starts[k + 1])

C9_Witness ==
  /\ ckpc = "return"
  /\ Len(chunks) >= 3
  /\ overlap = 2
  /\ Cardinality(Span(Len(chunks) - 1) \cap Span(Len(chunks))) = 1

\* ===================================================== the request handlers
Procs == {1, 2}
FileNames == {"a.txt", "b.txt"}
\* Request inputs that are absent: no 'file' part, no 'query' argument, no
\* 'fileName' key.
NoFile == [part |-> FALSE, filename |-> "", bytes |-> <<>>]
NoQuery == [given |-> FALSE, text |-> <<>>]
NoName == [given |-> FALSE, name |-> ""]

\* file.read(): the UTF-8 bytes of a text of ASCII characters, or bytes
\* that are no UTF-8 (0xFF).
BadBytes == <<255>>
ByteInputs == {EmptyText, ShortText, LongText, BadBytes}
ValidUtf8(bytes) == \A k \in 1..Len(bytes) : bytes[k] < 128
\* bytes.decode('utf-8') of valid bytes below 128: byte k is character k.
utf8_decode(bytes) == [k \in 1..Len(bytes) |-> bytes[k]]

QueryText == <<104, 105>>

\* model.encode(text): the embedding model is a fixed function of the text.
Embed(t) ==
  IF t = <<>> THEN <<0, 0, 0>>
  ELSE <<Len(t) % 7, t[1] % 7, t[Len(t)] % 3>>
\* model.encode(chunks): one vector per chunk, in order.
EmbedMany(chs) == [k \in 1..Len(chs) |-> Embed(chs[k])]

\* embedding <-> query_vector: L2 distance, compared by its square.
Dist(u, v) ==
  (u[1] - v[1]) * (u[1] - v[1]) + (u[2] - v[2]) * (u[2] - v[2])
    + (u[3] - v[3]) * (u[3] - v[3])

\* The rows an upload of chunks chs with vectors embs inserts for name n.
RowsOf(n, chs, embs) ==
  {[file_name |-> n, chunk_index |-> k - 1, content |-> chs[k],
    embedding |-> embs[k]] : k \in 1..Len(chs)}

RowsFor(n, t) ==
  LET chs == chunk_text(t, CHUNK_SIZE, CHUNK_OVERLAP)
  IN  RowsOf(n, chs, EmbedMany(chs))

Named(rows, n) == {r \in rows : r.file_name = n}
SameKey(r, c) == r.file_name = c.file_name /\ r.chunk_index = c.chunk_index

NoLoc ==
  [file_name |-> "", chunks |-> <<>>, embeddings |-> <<>>, query_vector |-> <<>>,
   conn |-> "none", snap |-> {}, deleted |-> {}, inserted |-> {}, idx |-> 0]
\* A response: the status code, the "error" text, what raised (exception,
\* statement, index of the chunk being inserted) and the success payload.
NoErr == <<"", "", 0>>
NoResp == [code |-> 0, error |-> "", e |-> NoErr, body |-> <<>>]
Resp(code, error, e, body) == [code |-> code, error |-> error, e |-> e, body |-> body]

InFlight(p) == pc[p] \notin {"idle", "done"}

\* ------------------------------------------------------------- PostgreSQL
\* READ COMMITTED: a statement sees the rows committed when it starts.
Visible == committed

\* A unique index that does not wait for open transactions.
KeyHeldByOther_Never(p, r) == FALSE

\* Rows another open transaction has deleted (and so locked) or inserted.
LockedBy(p, rows) == \E q \in Procs \ {p} : loc[q].deleted \cap rows # {}
KeyHeldByOther(p, r) ==
  \E q \in Procs \ {p} : \E c \in loc[q].deleted \cup loc[q].inserted : SameKey(r, c)

\* The rows conn.commit() of p's transaction leaves in the table.
AfterCommit(p) == (committed \ loc[p].deleted) \cup loc[p].inserted

\* ORDER BY ... DESC: the farthest rows first.
RECURSIVE NearestSeqs_Farthest(_, _, _)
NearestSeqs_Farthest(rows, qv, k) ==
  IF k = 0 \/ rows = {} THEN {<<>>}
  ELSE LET far == {r \in rows : \A c \in rows :
                     Dist(r.embedding, qv) >= Dist(c.embedding, qv)}
       IN  UNION {{<<r>> \o rest : rest \in NearestSeqs_Farthest(rows \ {r}, qv, k - 1)} :
                  r \in far}

\* ORDER BY embedding <-> qv LIMIT k: every order of the k nearest rows that
\* is non-decreasing in distance (rows at the same distance come in any order).
RECURSIVE NearestSeqs(_, _, _)
NearestSeqs(rows, qv, k) ==
  IF k = 0 \/ rows = {} THEN {<<>>}
  ELSE LET near == {r \in rows : \A c \in rows :
                      Dist(r.embedding, qv) <= Dist(c.embedding, qv)}
       IN  UNION {{<<r>> \o rest : rest \in NearestSeqs(rows \ {r}, qv, k - 1)} :
                  r \in near}

\* {"fileName": r[0], "chunkIndex": r[1], "text": r[2]} for r in results
FormatResults(results) ==
  [k \in 1..Len(results) |->
     [fileName |-> results[k].file_name, chunkIndex |-> results[k].chunk_index,
      text |-> results[k].content]]

\* ------------------------------------------------------- request lifecycle
CanStart(p) == pc[p] = "idle"
CanFail == nfaults < MaxFaults

\* A request of handler kind with input a enters at position first.
Begin(p, kind, a, first) ==
  /\ CanStart(p)
  /\ pc' = [pc EXCEPT ![p] = first]
  /\ op' = [op EXCEPT ![p] = kind]
  /\ arg' = [arg EXCEPT ![p] = a]
  /\ loc' = [loc EXCEPT ![p] = NoLoc]
  /\ resp' = [resp EXCEPT ![p] = NoResp]
  /\ UNCHANGED nfaults
  /\ others' = [q \in Procs |->
                  IF q = p THEN {op[r] : r \in {r \in Procs \ {p} : InFlight(r)}}
                  ELSE others[q] \cup {kind}]
  /\ pre' = [pre EXCEPT ![p] = committed]
  /\ UNCHANGED <<ckvars, committed, leaked, lastCommit>>

\* A request refused before its try block: jsonify({"error": ...}), 400.
Refuse(p, kind, a, error) ==
  /\ CanStart(p)
  /\ pc' = [pc EXCEPT ![p] = "done"]
  /\ op' = [op EXCEPT ![p] = kind]
  /\ arg' = [arg EXCEPT ![p] = a]
  /\ loc' = [loc EXCEPT ![p] = NoLoc]
  /\ resp' = [resp EXCEPT ![p] = Resp(400, error, NoErr, <<>>)]
  /\ UNCHANGED nfaults
  /\ others' = [others EXCEPT ![p] = {}]
  /\ pre' = [pre EXCEPT ![p] = committed]
  /\ UNCHANGED <<ckvars, committed, leaked, lastCommit>>

\* The handler returns: its locals are gone, the response is sent. A
\* connection that is still open stays open, with its transaction aborted.
Return(p, r) ==
  /\ pc' = [pc EXCEPT ![p] = "done"]
  /\ resp' = [resp EXCEPT ![p] = r]
  /\ leaked' = IF loc[p].conn = "open" THEN leaked + 1 ELSE leaked
  /\ loc' = [loc EXCEPT ![p] = NoLoc]

\* except Exception as e: return jsonify({"error": f"An error occurred: {e}"}), 500
Except(p, e) ==
  /\ Return(p, Resp(500, "An error occurred", e, <<>>))
  /\ UNCHANGED <<ckvars, committed, op, arg, nfaults, others, pre, lastCommit>>

\* The same, for an exception that a failure of the environment raises.
Fault(p, e) ==
  /\ CanFail
  /\ nfaults' = nfaults + 1
  /\ Return(p, Resp(500, "An error occurred", e, <<>>))
  /\ UNCHANGED <<ckvars, committed, op, arg, others, pre, lastCommit>>

\* A handler that answers a failed connection like an empty success.
Connect_EmptySuccess(p, next) ==
  \/ /\ loc' = [loc EXCEPT ![p].conn = "open"]
     /\ pc' = [pc EXCEPT ![p] = next]
     /\ UNCHANGED <<ckvars, committed, op, arg, resp, nfaults, leaked, others, pre, lastCommit>>
  \/ /\ CanFail
     /\ nfaults' = nfaults + 1
     /\ Return(p, Resp(200, "", NoErr, <<>>))
     /\ UNCHANGED <<ckvars, committed, op, arg, others, pre, lastCommit>>

\* conn = get_db_connection(): a connection, or None when connecting fails.
Connect(p, next) ==
  \/ /\ loc' = [loc EXCEPT ![p].conn = "open"]
     /\ pc' = [pc EXCEPT ![p] = next]
     /\ UNCHANGED <<ckvars, committed, op, arg, resp, nfaults, leaked, others, pre, lastCommit>>
  \/ /\ CanFail
     /\ nfaults' = nfaults + 1
     /\ Return(p, Resp(500, "Database connection failed", NoErr, <<>>))
     /\ UNCHANGED <<ckvars, committed, op, arg, others, pre, lastCommit>>

\* A DELETE without its WHERE clause.
DeleteBegin_NoWhere(p, n) ==
  /\ loc' = [loc EXCEPT ![p].snap = Visible]
  /\ pc' = [pc EXCEPT ![p] = "lock"]
  /\ UNCHANGED <<ckvars, committed, op, arg, resp, nfaults, leaked, others, pre, lastCommit>>

\* cur.execute("DELETE FROM documents WHERE file_name = %s") starts: the
\* statement takes its snapshot of the rows of that name.
DeleteBegin(p, n) ==
  /\ loc' = [loc EXCEPT ![p].snap = Named(Visible, n)]
  /\ pc' = [pc EXCEPT ![p] = "lock"]
  /\ UNCHANGED <<ckvars, committed, op, arg, resp, nfaults, leaked, others, pre, lastCommit>>

\* The DELETE locks the rows of its snapshot, waiting for a transaction that
\* holds one, and deletes those that still exist; the deletion is part of
\* the open transaction.
DeleteRows(p, next) ==
  /\ ~LockedBy(p, loc[p].snap)
  /\ loc' = [loc EXCEPT ![p].deleted = loc[p].snap \cap committed,
                        ![p].snap = {}]
  /\ pc' = [pc EXCEPT ![p] = next]
  /\ UNCHANGED <<ckvars, committed, op, arg, resp, nfaults, leaked, others, pre, lastCommit>>

\* conn.commit(); conn.close(); return jsonify(...), 200
Commit(p, n, chs, body) ==
  /\ committed' = AfterCommit(p)
  /\ lastCommit' = [lastCommit EXCEPT ![n] = chs]
  /\ pc' = [pc EXCEPT ![p] = "done"]
  /\ resp' = [resp EXCEPT ![p] = Resp(200, "", NoErr, body)]
  /\ loc' = [loc EXCEPT ![p] = NoLoc]
  /\ UNCHANGED <<ckvars, op, arg, nfaults, leaked, others, pre>>

\* conn.commit() raises after the server has committed (the connection is
\* lost before the reply arrives).
CommitLost(p, n, chs) ==
  /\ committed' = AfterCommit(p)
  /\ lastCommit' = [lastCommit EXCEPT ![n] = chs]
  /\ CanFail
  /\ nfaults' = nfaults + 1
  /\ Return(p, Resp(500, "An error occurred", <<"OperationalError", "commit", 0>>, <<>>))
  /\ UNCHANGED <<ckvars, op, arg, others, pre>>

\* ------------------------------------------------------------ upload_file
UploadInputs ==
  {NoFile} \cup [part : {TRUE}, filename : {""}, bytes : {EmptyText}]
    \cup [part : {TRUE}, filename : FileNames, bytes : ByteInputs]

\* request.files['file'], file.filename: the two checks before the try block
UploadStart(p) ==
  \E file \in UploadInputs :
    IF ~file.part THEN Refuse(p, "upload", file, "No file part")
    ELSE IF file.filename = "" THEN Refuse(p, "upload", file, "No selected file")
    ELSE Begin(p, "upload", file, "prepare")

\* An upload that has removed the old rows of the name before it embeds.
UploadPrepare_DeleteFirst(p) ==
  /\ pc[p] = "prepare"
  /\ IF ~ValidUtf8(arg[p].bytes)
     THEN Except(p, <<"UnicodeDecodeError", "decode", 0>>)
     ELSE \/ /\ CanFail
             /\ nfaults' = nfaults + 1
             /\ committed' = committed \ Named(committed, arg[p].filename)
             /\ Return(p, Resp(500, "An error occurred", <<"ModelError", "encode", 0>>, <<>>))
             /\ UNCHANGED <<ckvars, op, arg, others, pre, lastCommit>>
          \/ LET chs == chunk_text(utf8_decode(arg[p].bytes), CHUNK_SIZE, CHUNK_OVERLAP)
             IN  /\ loc' = [loc EXCEPT ![p].file_name = arg[p].filename,
                                       ![p].chunks = chs,
                                       ![p].embeddings = EmbedMany(chs)]
                 /\ pc' = [pc EXCEPT ![p] = "connect"]
                 /\ UNCHANGED <<ckvars, committed, op, arg, resp, nfaults, leaked,
                                others, pre, lastCommit>>

\* content = file.read().decode('utf-8'); chunks = chunk_text(...);
\* embeddings = model.encode(chunks)
UploadPrepare(p) ==
  /\ pc[p] = "prepare"
  /\ IF ~ValidUtf8(arg[p].bytes)
     THEN Except(p, <<"UnicodeDecodeError", "decode", 0>>)
     ELSE \/ Fault(p, <<"ModelError", "encode", 0>>)
          \/ LET chs == chunk_text(utf8_decode(arg[p].bytes), CHUNK_SIZE, CHUNK_OVERLAP)
             IN  /\ loc' = [loc EXCEPT ![p].file_name = arg[p].filename,
                                       ![p].chunks = chs,
                                       ![p].embeddings = EmbedMany(chs)]
                 /\ pc' = [pc EXCEPT ![p] = "connect"]
                 /\ UNCHANGED <<ckvars, committed, op, arg, resp, nfaults, leaked, others,
                                pre, lastCommit>>

UploadConnect(p) ==
  /\ pc[p] = "connect" /\ op[p] = "upload"
  /\ Connect(p, "delete")

\* DELETE FROM documents WHERE file_name = file_name: the statement starts
UploadDelete(p) ==
  /\ pc[p] = "delete" /\ op[p] = "upload"
  /\ DeleteBegin(p, loc[p].file_name)

\* A DELETE that removes only the rows the new chunks will overwrite.
UploadDeleted_OnlyOverwritten(p) ==
  /\ pc[p] = "lock" /\ op[p] = "upload"
  /\ ~LockedBy(p, loc[p].snap)
  /\ loc' = [loc EXCEPT
               ![p].deleted = {r \in loc[p].snap \cap committed :
                                 r.chunk_index < Len(loc[p].chunks)},
               ![p].snap = {}]
  /\ pc' = [pc EXCEPT ![p] = IF loc[p].chunks = <<>> THEN "commit" ELSE "insert"]
  /\ UNCHANGED <<ckvars, committed, op, arg, resp, nfaults, leaked, others, pre,
                 lastCommit>>

\* A DELETE on a connection in autocommit mode: it is committed at once.
UploadDeleted_Autocommit(p) ==
  /\ pc[p] = "lock" /\ op[p] = "upload"
  /\ ~LockedBy(p, loc[p].snap)
  /\ committed' = committed \ loc[p].snap
  /\ loc' = [loc EXCEPT ![p].snap = {}]
  /\ pc' = [pc EXCEPT ![p] = IF loc[p].chunks = <<>> THEN "commit" ELSE "insert"]
  /\ UNCHANGED <<ckvars, op, arg, resp, nfaults, leaked, others, pre, lastCommit>>

\* An upload that skips the store when it has no chunk.
UploadDeleted_SkipWhenEmpty(p) ==
  /\ pc[p] = "lock" /\ op[p] = "upload"
  /\ ~LockedBy(p, loc[p].snap)
  /\ loc' = [loc EXCEPT
               ![p].deleted = IF loc[p].chunks = <<>> THEN {}
                              ELSE loc[p].snap \cap committed,
               ![p].snap = {}]
  /\ pc' = [pc EXCEPT ![p] = IF loc[p].chunks = <<>> THEN "commit" ELSE "insert"]
  /\ UNCHANGED <<ckvars, committed, op, arg, resp, nfaults, leaked, others, pre,
                 lastCommit>>

\* ... and has locked and deleted the old rows
UploadDeleted(p) ==
  /\ pc[p] = "lock" /\ op[p] = "upload"
  /\ DeleteRows(p, IF loc[p].chunks = <<>> THEN "commit" ELSE "insert")

\* An INSERT into a table without the UNIQUE(file_name, chunk_index) index.
UploadInsert_NoUnique(p) ==
  /\ pc[p] = "insert"
  /\ LET k == loc[p].idx
         r == [file_name |-> loc[p].file_name, chunk_index |-> k,
               content |-> loc[p].chunks[k + 1],
               embedding |-> loc[p].embeddings[k + 1]]
     IN  /\ loc' = [loc EXCEPT ![p].inserted = @ \cup {r}, ![p].idx = k + 1]
         /\ pc' = [pc EXCEPT ![p] =
                     IF k + 1 = Len(loc[p].chunks) THEN "commit" ELSE "insert"]
         /\ UNCHANGED <<ckvars, committed, op, arg, resp, nfaults, leaked, others,
                        pre, lastCommit>>

\* An INSERT on a connection in autocommit mode: it is committed at once.
UploadInsert_Autocommit(p) ==
  /\ pc[p] = "insert"
  /\ LET k == loc[p].idx
         r == [file_name |-> loc[p].file_name, chunk_index |-> k,
               content |-> loc[p].chunks[k + 1],
               embedding |-> loc[p].embeddings[k + 1]]
     IN  /\ ~KeyHeldByOther(p, r)
         /\ IF \E c \in committed \ loc[p].deleted : SameKey(r, c)
            THEN Except(p, <<"UniqueViolation", "insert", k>>)
            ELSE /\ committed' = (committed \ loc[p].deleted) \cup {r}
                 /\ loc' = [loc EXCEPT ![p].deleted = {}, ![p].idx = k + 1]
                 /\ pc' = [pc EXCEPT ![p] =
                             IF k + 1 = Len(loc[p].chunks) THEN "commit" ELSE "insert"]
                 /\ UNCHANGED <<ckvars, op, arg, resp, nfaults, leaked, others,
                                pre, lastCommit>>

\* An INSERT whose chunk_index goes on counting after the rows it replaces.
UploadInsert_ContinueIndex(p) ==
  /\ pc[p] = "insert"
  /\ LET k == loc[p].idx
         r == [file_name |-> loc[p].file_name,
               chunk_index |-> k + Cardinality(loc[p].deleted),
               content |-> loc[p].chunks[k + 1],
               embedding |-> loc[p].embeddings[k + 1]]
     IN  /\ ~KeyHeldByOther(p, r)
         /\ IF \E c \in committed \ loc[p].deleted : SameKey(r, c)
            THEN Except(p, <<"UniqueViolation", "insert", k>>)
            ELSE /\ loc' = [loc EXCEPT ![p].inserted = @ \cup {r},
                                      ![p].idx = k + 1]
                 /\ pc' = [pc EXCEPT ![p] =
                             IF k + 1 = Len(loc[p].chunks) THEN "commit" ELSE "insert"]
                 /\ UNCHANGED <<ckvars, committed, op, arg, resp, nfaults, leaked, others,
                                pre, lastCommit>>

\* for i, (chunk, embedding) in enumerate(zip(chunks, embeddings)): INSERT
\* The unique index makes the INSERT wait for an open transaction that holds
\* the key, and raise when a committed row has it.
UploadInsert(p) ==
  /\ pc[p] = "insert"
  /\ LET k == loc[p].idx
         r == [file_name |-> loc[p].file_name, chunk_index |-> k,
               content |-> loc[p].chunks[k + 1],
               embedding |-> loc[p].embeddings[k + 1]]
     IN  /\ ~KeyHeldByOther(p, r)
         /\ IF \E c \in committed \ loc[p].deleted : SameKey(r, c)
            THEN Except(p, <<"UniqueViolation", "insert", k>>)
            ELSE /\ loc' = [loc EXCEPT ![p].inserted = @ \cup {r},
                                      ![p].idx = k + 1]
                 /\ pc' = [pc EXCEPT ![p] =
                             IF k + 1 = Len(loc[p].chunks) THEN "commit" ELSE "insert"]
                 /\ UNCHANGED <<ckvars, committed, op, arg, resp, nfaults, leaked, others,
                                pre, lastCommit>>

\* conn.commit(); conn.close(); return "Successfully added ..." 200
UploadCommit(p) ==
  /\ pc[p] = "commit" /\ op[p] = "upload"
  /\ Commit(p, loc[p].file_name, loc[p].chunks,
            <<"Successfully added", Len(loc[p].chunks), loc[p].file_name>>)

\* A statement of the transaction raises (the server is gone, a deadlock is
\* broken, a statement is cancelled): the except clause answers 500.
UploadFault(p) ==
  /\ pc[p] \in {"delete", "insert", "commit"} /\ op[p] = "upload"
  /\ Fault(p, <<"OperationalError", pc[p], loc[p].idx>>)

UploadCommitLost(p) ==
  /\ pc[p] = "commit" /\ op[p] = "upload"
  /\ CommitLost(p, loc[p].file_name, loc[p].chunks)

\* ------------------------------------------------------------ get_context
QueryInputs == {NoQuery} \cup [given : {TRUE}, text : {EmptyText, QueryText}]

\* A check that refuses only a missing query, not an empty one.
QueryStart_NoneOnly(p) ==
  \E query \in QueryInputs :
    IF ~query.given
    THEN Refuse(p, "query", query, "No query provided")
    ELSE Begin(p, "query", query, "encode")

\* query = request.args.get('query'); if not query: 400
QueryStart(p) ==
  \E query \in QueryInputs :
    IF ~query.given \/ query.text = EmptyText
    THEN Refuse(p, "query", query, "No query provided")
    ELSE Begin(p, "query", query, "encode")

\* query_vector = model.encode(query)
QueryEncode(p) ==
  /\ pc[p] = "encode"
  /\ \/ Fault(p, <<"ModelError", "encode", 0>>)
     \/ /\ loc' = [loc EXCEPT ![p].query_vector = Embed(arg[p].text)]
        /\ pc' = [pc EXCEPT ![p] = "connect"]
        /\ UNCHANGED <<ckvars, committed, op, arg, resp, nfaults, leaked, others, pre,
                       lastCommit>>

QueryConnect(p) ==
  /\ pc[p] = "connect" /\ op[p] = "query"
  /\ Connect(p, "select")

\* SELECT ... ORDER BY embedding <-> %s LIMIT %s; results = cur.fetchall();
\* conn.close(); return jsonify(retrieved_chunks), 200
QuerySelect(p) ==
  /\ pc[p] = "select"
  /\ \E results \in NearestSeqs(Visible, loc[p].query_vector, TOP_K_CHUNKS) :
       /\ pc' = [pc EXCEPT ![p] = "done"]
       /\ resp' = [resp EXCEPT ![p] = Resp(200, "", NoErr, FormatResults(results))]
       /\ loc' = [loc EXCEPT ![p] = NoLoc]
  /\ UNCHANGED <<ckvars, committed, op, arg, nfaults, leaked, others, pre, lastCommit>>

QueryFault(p) ==
  /\ pc[p] = "select"
  /\ Fault(p, <<"OperationalError", "select", 0>>)

\* ------------------------------------------------------------ delete_file
DeleteInputs == {NoName} \cup [given : {TRUE}, name : {""} \cup FileNames]

\* file_name = data.get('fileName'); if not file_name: 400
DeleteStart(p) ==
  \E file_name \in DeleteInputs :
    IF ~file_name.given \/ file_name.name = ""
    THEN Refuse(p, "delete", file_name, "No file name provided")
    ELSE Begin(p, "delete", file_name, "connect")

DeleteConnect(p) ==
  /\ pc[p] = "connect" /\ op[p] = "delete"
  /\ Connect(p, "delete")

DeleteDelete(p) ==
  /\ pc[p] = "delete" /\ op[p] = "delete"
  /\ DeleteBegin(p, arg[p].name)

DeleteDeleted(p) ==
  /\ pc[p] = "lock" /\ op[p] = "delete"
  /\ DeleteRows(p, "commit")

\* conn.commit(); conn.close(); return "Successfully deleted file ..." 200
\* (the message names the file; cur.rowcount is not read)
DeleteCommit(p) ==
  /\ pc[p] = "commit" /\ op[p] = "delete"
  /\ Commit(p, arg[p].name, <<>>, <<"Successfully deleted file", arg[p].name>>)

DeleteFault(p) ==
  /\ pc[p] \in {"delete", "commit"} /\ op[p] = "delete"
  /\ Fault(p, <<"OperationalError", pc[p], loc[p].idx>>)

DeleteCommitLost(p) ==
  /\ pc[p] = "commit" /\ op[p] = "delete"
  /\ CommitLost(p, arg[p].name, <<>>)

\* ---------------------------------------------------------- specification
\* The table holds, for each name, the chunks of one text (none for the
\* empty text): what init_db and a sequence of uploads and deletes leave.
InitStores == [FileNames -> {EmptyText, ShortText, LongText}]

ChunkIdle ==
  /\ text = <<>> /\ chunk_size = CHUNK_SIZE /\ overlap = CHUNK_OVERLAP
  /\ i = 0 /\ chunks = <<>> /\ starts = <<>> /\ ckpc = "idle"

Init ==
  /\ ChunkIdle
  /\ \E f \in InitStores :
       /\ committed = UNION {RowsFor(n, f[n]) : n \in FileNames}
       /\ lastCommit = [n \in FileNames |->
                          chunk_text(f[n], CHUNK_SIZE, CHUNK_OVERLAP)]
  /\ pc = [p \in Procs |-> "idle"]
  /\ op = [p \in Procs |-> "none"]
  /\ arg = [p \in Procs |-> NoFile]
  /\ loc = [p \in Procs |-> NoLoc]
  /\ resp = [p \in Procs |-> NoResp]
  /\ nfaults = 0
  /\ leaked = 0
  /\ others = [p \in Procs |-> {}]
  /\ pre = [p \in Procs |-> {}]

Upload(p) ==
  \/ UploadStart(p) \/ UploadPrepare(p) \/ UploadConnect(p) \/ UploadDelete(p)
  \/ UploadDeleted(p) \/ UploadInsert(p) \/ UploadCommit(p) \/ UploadFault(p)
  \/ UploadCommitLost(p)

Query(p) ==
  \/ QueryStart(p) \/ QueryEncode(p) \/ QueryConnect(p) \/ QuerySelect(p)
  \/ QueryFault(p)

Delete(p) ==
  \/ DeleteStart(p) \/ DeleteConnect(p) \/ DeleteDelete(p) \/ DeleteDeleted(p)
  \/ DeleteCommit(p) \/ DeleteFault(p) \/ DeleteCommitLost(p)

Next ==
  \E p \in Procs : Upload(p) \/ Query(p) \/ Delete(p)

Spec == Init /\ [][Next]_vars

\* ------------------------------------------------------ handlers: the claims
Uploads == {p \in Procs : op[p] = "upload" /\ arg[p].part /\ arg[p].filename # ""}
Done(p) == pc[p] = "done"
\* No other upload or delete overlapped or followed the request of p.
NoOtherWriter(p) == others[p] \cap {"upload", "delete"} = {}
\* Two requests that were in flight at the same time.
Overlapped(p, q) == p # q /\ op[q] \in others[p] /\ op[p] \in others[q]
\* The rows the upload of p is to leave for its name.
NewRows(p) == RowsFor(arg[p].filename, utf8_decode(arg[p].bytes))
Indexes(rows) == {r.chunk_index : r \in rows}

\* C1: after a successful upload_file(n, T), with no other writer about, the
\* rows of n are exactly the (i, chunk_i) of chunk_text(T, CHUNK_SIZE,
\* CHUNK_OVERLAP); nothing of an earlier, longer upload of n is left.
C1_ReplaceOnReupload ==
  \A p \in Uploads :
    Done(p) /\ resp[p].code = 200 /\ NoOtherWriter(p) =>
      Named(committed, arg[p].filename) = NewRows(p)

C1_Witness ==
  \E p \in Uploads :
    /\ Done(p) /\ resp[p].code = 200 /\ NoOtherWriter(p)
    /\ arg[p].bytes = ShortText
    /\ Cardinality(Named(pre[p], arg[p].filename)) = 4
    /\ Indexes(Named(committed, arg[p].filename)) = {0}

\* C2: in every committed state of the table, the chunk_index values of each
\* file_name are 0..N-1 for some N, and no (file_name, chunk_index) is
\* stored twice.
C2_IndexContiguity ==
  \A n \in FileNames :
    LET rows == Named(committed, n)
    IN  /\ Indexes(rows) = 0..(Cardinality(rows) - 1)
        /\ \A r, c \in rows : SameKey(r, c) => r = c

C2_Witness ==
  \E p, q \in Uploads :
    /\ Overlapped(p, q)
    /\ arg[p].filename = arg[q].filename
    /\ Done(p) /\ resp[p].code = 200 /\ arg[p].bytes = LongText
    /\ Done(q) /\ resp[q].e[1] = "UniqueViolation"
    /\ Indexes(Named(committed, arg[p].filename)) = 0..3

\* C3: a get_context about to run its SELECT while an upload_file of name n
\* is anywhere between its start and its return sees, for n, the rows from
\* before the upload or the complete rows of the upload, never the state
\* with the old rows deleted and the new ones missing or partly inserted.
C3_AtomicReplace ==
  \A p \in Procs, q \in Uploads :
    op[p] = "query" /\ pc[p] = "select" /\ pc[q] # "idle" /\ ValidUtf8(arg[q].bytes) =>
      Named(Visible, arg[q].filename)
        \in {Named(pre[q], arg[q].filename), NewRows(q)}

C3_Witness ==
  \E p \in Procs, q \in Uploads :
    /\ op[p] = "query" /\ pc[p] = "select"
    /\ pc[q] = "insert"
    /\ Cardinality(loc[q].deleted) = 1
    /\ Cardinality(loc[q].inserted) = 2

\* C4: an upload_file that fails after its DELETE, or after some of its
\* INSERTs, with no other writer about, leaves the table as it was when the
\* request started.
C4_Rollback ==
  \A p \in Uploads :
    Done(p) /\ resp[p].code = 500 /\ resp[p].e[2] = "insert" /\ NoOtherWriter(p) =>
      committed = pre[p]

C4_Witness ==
  \E p \in Uploads :
    /\ Done(p) /\ resp[p].e = <<"OperationalError", "insert", 2>>
    /\ NoOtherWriter(p)
    /\ Named(pre[p], arg[p].filename) # {}

\* An upload_file that failed in decode, in model.encode or in connecting.
FailedBeforeStore(r) ==
  r.code = 500 /\ (r.e[2] \in {"decode", "encode"} \/ r.error = "Database connection failed")

\* C5: an upload_file that fails while decoding, while embedding or because
\* no connection is obtained has run no statement (it fails from a position
\* before the DELETE, holding no connection and no row), and leaves every
\* row as it was.
C5_FailSafe ==
  /\ [](\A p \in Uploads :
          Done(p) /\ FailedBeforeStore(resp[p]) /\ NoOtherWriter(p) =>
            committed = pre[p])
  /\ [][\A p \in Procs :
          op'[p] = "upload" /\ pc[p] # "done" /\ pc'[p] = "done"
            /\ FailedBeforeStore(resp'[p]) =>
              /\ pc[p] \in {"prepare", "connect"}
              /\ loc[p].conn = "none"
              /\ loc[p].deleted = {} /\ loc[p].inserted = {}
              /\ committed' = committed]_vars

C5_Witness ==
  \E p \in Uploads :
    /\ Done(p) /\ resp[p].e[2] = "encode" /\ NoOtherWriter(p)
    /\ Named(committed, arg[p].filename) # {}

\* Two uploads of different contents for one name that overlapped.
Racing(p, q) ==
  /\ p \in Uploads /\ q \in Uploads /\ Overlapped(p, q)
  /\ arg[p].filename = arg[q].filename
  /\ arg[p].bytes # arg[q].bytes
  /\ ValidUtf8(arg[p].bytes) /\ ValidUtf8(arg[q].bytes)

LastCommitted(n) == RowsOf(n, lastCommit[n], EmbedMany(lastCommit[n]))

\* C6 as stated: two concurrent uploads of one name both complete, and the
\* rows of the name are the complete chunk set of the one that committed last.
C6_LastWriterWins ==
  \A p, q \in Procs :
    Racing(p, q) /\ Done(p) /\ Done(q) /\ nfaults = 0 =>
      /\ resp[p].code = 200 /\ resp[q].code = 200
      /\ Named(committed, arg[p].filename) = LastCommitted(arg[p].filename)

\* C6 as amended: two concurrent uploads of one name never leave a mix: the
\* rows of the name are the old rows or the complete chunk set of one of the
\* two, and the complete chunk set of the last commit that had a chunk; an
\* upload that fails without a failure of the environment fails on the
\* unique index, inserting its chunk 0.
C6_NoMixLoserFails ==
  \A p, q \in Procs :
    Racing(p, q) =>
      LET n == arg[p].filename
      IN  /\ Named(committed, n) \in {Named(pre[p], n), NewRows(p), NewRows(q)}
          /\ (lastCommit[n] # <<>> => Named(committed, n) = LastCommitted(n))
          /\ (Done(p) /\ resp[p].code # 200 /\ nfaults = 0 =>
                resp[p].e = <<"UniqueViolation", "insert", 0>>)

C6_Witness ==
  \E p, q \in Procs :
    /\ Racing(p, q) /\ Done(p) /\ Done(q) /\ nfaults = 0
    /\ resp[p].e = <<"UniqueViolation", "insert", 0>>
    /\ resp[q].code = 200
    /\ Named(committed, arg[q].filename) = NewRows(q)
    /\ Named(pre[q], arg[q].filename) # {}

\* C7: every connection a handler acquired is closed when the handler
\* returns, on every exit path.
C7_ConnectionsReleased == leaked = 0

\* C10: a successful get_context returns min(TOP_K_CHUNKS, number of rows)
\* records, the nearest to the query vector, in non-decreasing distance; on
\* an empty table it succeeds with an empty list.
C10_NearestNeighbours ==
  [][\A p \in Procs :
       pc[p] = "select" /\ pc'[p] = "done" /\ nfaults' = nfaults =>
         LET body == resp'[p].body
             qv == loc[p].query_vector
             Row(b) == CHOOSE r \in committed :
                         r.file_name = b.fileName /\ r.chunk_index = b.chunkIndex
             D(k) == Dist(Row(body[k]).embedding, qv)
             got == {Row(body[k]) : k \in 1..Len(body)}
         IN  /\ resp'[p].code = 200
             /\ Len(body) = Min(TOP_K_CHUNKS, Cardinality(committed))
             /\ \A k \in 1..Len(body) :
                  \E r \in committed :
                    /\ r.file_name = body[k].fileName
                    /\ r.chunk_index = body[k].chunkIndex
                    /\ r.content = body[k].text
             /\ Cardinality(got) = Len(body)
             /\ \A k \in 1..(Len(body) - 1) : D(k) <= D(k + 1)
             /\ \A r \in committed \ got :
                  \A k \in 1..Len(body) : D(k) <= Dist(r.embedding, qv)
             /\ (committed = {} => body = <<>>)]_vars

C10_Witness ==
  \E p \in Procs :
    /\ op[p] = "query" /\ Done(p) /\ resp[p].code = 200
    /\ Len(resp[p].body) = TOP_K_CHUNKS
    /\ Cardinality(committed) = 8
    /\ resp[p].body[1].chunkIndex = 2

Deletes == {p \in Procs : op[p] = "delete" /\ arg[p].given /\ arg[p].name # ""}
\* The table without the rows of name n.
Without(rows, n) == rows \ Named(rows, n)

\* C12: a successful upload_file(n, empty text) leaves no row of n, and
\* leaves the table that a successful delete_file(n) leaves from the same
\* table: the table it started from without the rows of n.
C12_EmptyIsDeletion ==
  /\ \A p \in Uploads :
       Done(p) /\ resp[p].code = 200 /\ NoOtherWriter(p) /\ arg[p].bytes = EmptyText =>
         /\ Named(committed, arg[p].filename) = {}
         /\ committed = Without(pre[p], arg[p].filename)
  /\ \A q \in Deletes :
       Done(q) /\ resp[q].code = 200 /\ NoOtherWriter(q) =>
         committed = Without(pre[q], arg[q].name)

C12_Witness ==
  \E p \in Uploads :
    /\ Done(p) /\ resp[p].code = 200 /\ NoOtherWriter(p)
    /\ arg[p].bytes = EmptyText
    /\ Cardinality(Named(pre[p], arg[p].filename)) = 4
    /\ Cardinality(committed) = 1

\* C13: delete_file(n) for a name without rows returns success with a
\* deleted-count of 0 and leaves the table unchanged.
C13_DeleteUnknown ==
  \A p \in Deletes :
    Done(p) /\ Named(pre[p], arg[p].name) = {} /\ NoOtherWriter(p) /\ nfaults = 0 =>
      /\ resp[p].code = 200
      /\ committed = pre[p]
      /\ Len(resp[p].body) = 3
      /\ resp[p].body[2] = 0

\* C14: upload_file(n, T) run a second time after the first has returned
\* leaves the rows of the first: the table is the one the second started
\* from, and the rows of n are the chunks of T.
C14_IdempotentReingestion ==
  \A p, q \in Uploads :
    /\ p # q /\ arg[p] = arg[q] /\ ValidUtf8(arg[p].bytes)
    /\ Done(p) /\ resp[p].code = 200 /\ others[p] = {"upload"}
    /\ Done(q) /\ resp[q].code = 200 /\ others[q] = {}
    => /\ committed = pre[q]
       /\ Named(committed, arg[p].filename) = NewRows(p)

C14_Witness ==
  \E p, q \in Uploads :
    /\ p # q /\ arg[p] = arg[q] /\ arg[p].bytes = LongText
    /\ Done(p) /\ resp[p].code = 200 /\ others[p] = {"upload"}
    /\ Done(q) /\ resp[q].code = 200 /\ others[q] = {}
    /\ Named(pre[p], arg[p].filename) # NewRows(p)

\* C15: when no connection is obtained, the handler answers 500 "Database
\* connection failed" with no payload, which no success (200, no error text)
\* equals, and the table is unchanged.
C15_StoreUnavailable ==
  /\ [](\A p \in Procs : Done(p) /\ resp[p].code = 200 => resp[p].error = "")
  /\ [][\A p \in Procs :
          pc[p] = "connect" /\ pc'[p] = "done" =>
            /\ resp'[p].code = 500
            /\ resp'[p].error = "Database connection failed"
            /\ resp'[p].body = <<>>
            /\ committed' = committed]_vars

C15_Witness ==
  \E p \in Procs :
    /\ op[p] = "query" /\ Done(p)
    /\ resp[p].error = "Database connection failed"
    /\ committed = {}

\* C16: get_context with a missing or empty query is refused with 400 "No
\* query provided" in its first step: it never embeds, never holds a
\* connection and reads nothing.
C16_QueryValidation ==
  /\ [](\A p \in Procs :
          op[p] = "query" /\ (~arg[p].given \/ arg[p].text = EmptyText) =>
            /\ Done(p)
            /\ resp[p].code = 400 /\ resp[p].error = "No query provided"
            /\ loc[p] = NoLoc)
  /\ [][\A p \in Procs :
          pc[p] = "idle" /\ op'[p] = "query" /\ pc'[p] = "done" =>
            committed' = committed /\ leaked' = leaked /\ nfaults' = nfaults]_vars

C16_Witness ==
  \E p \in Procs :
    /\ op[p] = "query" /\ arg[p].given /\ arg[p].text = EmptyText
    /\ Done(p) /\ resp[p].code = 400

\* C18: only the step that commits an upload_file(n, T) or a delete_file(n)
\* changes the table, and it leaves the rows of every other name as they
\* were; no step of get_context, and no failing step before a commit,
\* changes any row.
C18_Frame ==
  [][committed' # committed =>
       \E p \in Procs :
         /\ op[p] \in {"upload", "delete"}
         /\ pc[p] = "commit" /\ pc'[p] = "done"
         /\ LET n == IF op[p] = "upload" THEN arg[p].filename ELSE arg[p].name
            IN  \A m \in FileNames \ {n} :
                  Named(committed', m) = Named(committed, m)]_vars

C18_Witness ==
  \E p \in Uploads :
    /\ Done(p) /\ resp[p].code = 200 /\ NoOtherWriter(p)
    /\ arg[p].filename = "a.txt"
    /\ Named(committed, "a.txt") # Named(pre[p], "a.txt")
    /\ Named(committed, "b.txt") = Named(pre[p], "b.txt")
    /\ Named(committed, "b.txt") # {}

====
